---- MODULE Spec2Model ----
(***************************************************************************)
(* Sieve of Eratosthenes over the odd integers (src/bin/06.rs): the serial *)
(* sieve, the chunked sieve and the parallel chunked sieve.                *)
(*                                                                         *)
(* A Vec<bool> / slice is a TLA+ sequence; the element the code calls      *)
(* sieve[i] (0-based) is sieve[i + 1] here.  A call that can panic (index  *)
(* out of range, slice start beyond the end, usize underflow) yields a     *)
(* record whose ok field is FALSE.                                         *)
(***************************************************************************)
EXTENDS Integers, Sequences, FiniteSets, TLC

\* Largest bound max handed to sieve_chunks and sieve_parallel.
MaxN == 50
\* Largest bound max handed to sieve_serial.
MaxSerialN == 100
\* Largest window length (the code's CHUNK_SIZE, here a parameter of a run).
MaxChunk == 8
\* sieve_parallel is run for the (max, CHUNK_SIZE) that give at most this
\* many windows; all of them may run concurrently.
MaxWindows == 3

VARIABLES
    strategy,   \* which of the three sieves this run calls
    max,        \* its argument
    CHUNK_SIZE, \* the window length of this run
    pc,         \* "start", "windows" (inside the split_at_mut block), "done", "panic"
    sieve,      \* the Vec<bool> being built; the returned value when pc = "done"
    small_max,  \* ceil(sqrt(max)) once computed
    win,        \* the windows handed out by chunks_mut / par_chunks_mut, 0-based
    task,       \* per window: the state of the update_chunk call on it
    writes,     \* access log: [task, idx, p] for every flag cleared in a window
    reads       \* access log: [task, idx] for every flag read from `low`

vars == <<strategy, max, CHUNK_SIZE, pc, sieve, small_max, win, task, writes, reads>>

Min(a, b) == IF a < b THEN a ELSE b

-----------------------------------------------------------------------------
(* clear_stride *)

\* A stride that starts one step late (the first element is left alone).
StridePositionsLate(len, from, stride) ==
    {j \in 0..(len - 1) : j > from /\ (j - from) % stride = 0}

\* The offsets StrideMut visits in slice[from..], as offsets into slice.
StridePositions(len, from, stride) ==
    {j \in 0..(len - 1) : j >= from /\ (j - from) % stride = 0}

clear_stride(slice, from, stride) ==
    IF from > Len(slice) \/ stride = 0
    THEN [ok |-> FALSE, buf |-> slice]
    ELSE [ok |-> TRUE,
          buf |-> [j \in 1..Len(slice) |->
                     IF (j - 1) \in StridePositions(Len(slice), from, stride)
                     THEN FALSE ELSE slice[j]]]

-----------------------------------------------------------------------------
(* sieve_serial *)

RECURSIVE SerialLoop(_, _, _)
\* The loop `for i in 1 ..` from index i on.
SerialLoop(s, i, m) ==
    IF i >= Len(s) THEN [ok |-> FALSE, buf |-> s]
    ELSE IF s[i + 1]
    THEN LET p  == 2 * i + 1
             pp == p * p
         IN  IF pp >= m THEN [ok |-> TRUE, buf |-> s]
             ELSE LET r == clear_stride(s, pp \div 2, p)
                  IN  IF r.ok THEN SerialLoop(r.buf, i + 1, m) ELSE r
    ELSE SerialLoop(s, i + 1, m)

sieve_serial(m) ==
    LET s == [j \in 1..(m \div 2) |-> TRUE]
    IN  IF Len(s) = 0 THEN [ok |-> FALSE, buf |-> s]
        ELSE SerialLoop([s EXCEPT ![1] = FALSE], 1, m)

-----------------------------------------------------------------------------
(* update_chunk *)

\* The ceiling quotient taken as it is, even or odd.
OrOneDropped(k) == k

\* k | 1
OrOne(k) == IF k % 2 = 0 THEN k + 1 ELSE k

\* The first multiple found by rounding base/p down instead of up.
FirstMultipleRoundedDown(p, base) ==
    IF p * p < base THEN OrOne(base \div p) * p ELSE p * p

\* The `pm` of update_chunk: the first multiple of p the chunk clears.
FirstMultiple(p, base) ==
    IF p * p < base THEN OrOne((base + p - 1) \div p) * p ELSE p * p

\* The chunk cleared without looking at where the first multiple lies.
InChunkUnchecked(pm, m) == TRUE

\* `if pm < max`: the first multiple lies inside the chunk.
InChunk(pm, m) == pm < m

\* One iteration of update_chunk's loop, for index i of `low`.
\* brk: the loop breaks here; wr: the chunk offsets cleared, with the prime.
UpdateStep(low, chunk, base, i) ==
    LET m  == base + Len(chunk) * 2
        p  == 2 * i + 1
        pp == p * p
        pm == FirstMultiple(p, base)
        same == [ok |-> TRUE, brk |-> FALSE, buf |-> chunk, wr |-> {}]
    IN  IF ~low[i + 1] THEN same
        ELSE IF pp >= m THEN [same EXCEPT !.brk = TRUE]
        ELSE IF InChunk(pm, m)
        THEN IF pm < base THEN [same EXCEPT !.ok = FALSE]
             ELSE LET from == (pm - base) \div 2
                      r == clear_stride(chunk, from, p)
                  IN  [ok |-> r.ok, brk |-> FALSE, buf |-> r.buf,
                       wr |-> IF r.ok
                              THEN {[pos |-> j, p |-> p] :
                                      j \in StridePositions(Len(chunk), from, p)}
                              ELSE {}]
        ELSE same

RECURSIVE UpdateLoop(_, _, _, _, _, _)
UpdateLoop(low, chunk, base, i, wr, rd) ==
    IF i >= Len(low) THEN [ok |-> TRUE, buf |-> chunk, wr |-> wr, rd |-> rd]
    ELSE LET r == UpdateStep(low, chunk, base, i)
         IN  IF ~r.ok \/ r.brk
             THEN [ok |-> r.ok, buf |-> r.buf, wr |-> wr \cup r.wr, rd |-> rd \cup {i}]
             ELSE UpdateLoop(low, r.buf, base, i + 1, wr \cup r.wr, rd \cup {i})

\* The whole call: the chunk afterwards, the offsets it cleared and the
\* indices of `low` it read.
update_chunk(low, chunk, base) == UpdateLoop(low, chunk, base, 0, {}, {})

-----------------------------------------------------------------------------
(* the drivers' preparation: lines 58-60 and the split into windows *)

\* The square root rounded down instead of up.
FloorSqrt(n) == CHOOSE r \in 0..n : r * r <= n /\ (r + 1) * (r + 1) > n

\* (max as f64).sqrt().ceil() as usize
CeilSqrt(n) == CHOOSE r \in 0..n : r * r >= n /\ \A q \in 0..(r - 1) : q * q < n

\* A resize to one flag more than asked for.
ResizeOneMore(s, n, v) == [j \in 1..(n + 1) |-> IF j <= Len(s) THEN s[j] ELSE v]

\* Vec::resize(n, true)
Resize(s, n, v) == [j \in 1..n |-> IF j <= Len(s) THEN s[j] ELSE v]

\* Only the full-length chunks, the shorter last one dropped.
ChunkCountFullOnly(hlen, size) == hlen \div size

\* chunks_mut(size) over a slice of length hlen: how many chunks, and each
\* chunk's offset and length in the slice.
ChunkCount(hlen, size) == (hlen + size - 1) \div size
ChunkLen(hlen, k, size) == Min(size, hlen - k * size)

\* The windows of high = sieve[small_max / 2 ..] with the base the closure
\* computes for each: start is the window's first index in sieve.
Windows(sm, n, size) ==
    LET mid == sm \div 2
    IN  [k \in 0..(ChunkCount(n - mid, size) - 1) |->
           [start |-> mid + k * size,
            len   |-> ChunkLen(n - mid, k, size),
            base  |-> (sm \div 2 + k * size) * 2 + 1]]

Slice(s, start, len) == SubSeq(s, start + 1, start + len)

\* sieve with the window w replaced by chunk.
Store(s, w, chunk) ==
    [j \in 1..Len(s) |->
       IF j > w.start /\ j <= w.start + w.len THEN chunk[j - w.start] ELSE s[j]]

\* Lines 58-60 and 63 (77-79 and 82): what the driver holds when it starts
\* handing out windows, or a panic.
Prepare(m, size) ==
    LET sm == CeilSqrt(m)
        r  == sieve_serial(sm)
        s  == Resize(r.buf, m \div 2, TRUE)
    IN  IF ~r.ok \/ sm \div 2 > Len(s)
        THEN [ok |-> FALSE, sm |-> sm, buf |-> r.buf, win |-> <<>>]
        ELSE [ok |-> TRUE, sm |-> sm, buf |-> s, win |-> Windows(sm, Len(s), size)]

Low == Slice(sieve, 0, small_max \div 2)

-----------------------------------------------------------------------------
(* the state machine *)

Fresh == [st |-> "pending", i |-> 0]

Init ==
    /\ strategy \in {"serial", "chunks", "parallel"}
    /\ CHUNK_SIZE \in 1..MaxChunk
    /\ max \in 0..MaxSerialN
    /\ strategy = "serial" => CHUNK_SIZE = 1
    /\ strategy # "serial" => max <= MaxN
    /\ strategy = "parallel" =>
          ChunkCount(max \div 2 - CeilSqrt(max) \div 2, CHUNK_SIZE) <= MaxWindows
    /\ pc = "start"
    /\ sieve = <<>>
    /\ small_max = 0
    /\ win = <<>>
    /\ task = <<>>
    /\ writes = {}
    /\ reads = {}

\* sieve_serial(max), called directly.
SieveSerial ==
    /\ strategy = "serial" /\ pc = "start"
    /\ LET r == sieve_serial(max)
       IN  /\ sieve' = r.buf
           /\ pc' = IF r.ok THEN "done" ELSE "panic"
    /\ UNCHANGED <<strategy, max, CHUNK_SIZE, small_max, win, task, writes, reads>>

\* sieve_chunks / sieve_parallel up to the point where the windows exist.
Start(which) ==
    /\ strategy = which /\ pc = "start"
    /\ LET r == Prepare(max, CHUNK_SIZE)
       IN  /\ small_max' = r.sm
           /\ sieve' = r.buf
           /\ win' = r.win
           /\ task' = [k \in DOMAIN r.win |-> Fresh]
           /\ pc' = IF r.ok THEN "windows" ELSE "panic"
    /\ UNCHANGED <<strategy, max, CHUNK_SIZE, writes, reads>>

SieveChunksStart == Start("chunks")
SieveParallelStart == Start("parallel")

\* sieve_chunks: the next iteration of the for loop, a whole update_chunk.
ChunkStep(k) ==
    /\ strategy = "chunks" /\ pc = "windows"
    /\ task[k].st = "pending"
    /\ \A j \in DOMAIN task : j < k => task[j].st = "done"
    /\ LET w == win[k]
           r == update_chunk(Low, Slice(sieve, w.start, w.len), w.base)
       IN  /\ sieve' = Store(sieve, w, r.buf)
           /\ writes' = writes \cup
                 {[task |-> k, idx |-> w.start + x.pos, p |-> x.p] : x \in r.wr}
           /\ reads' = reads \cup {[task |-> k, idx |-> j] : j \in r.rd}
           /\ task' = [task EXCEPT ![k].st = "done"]
           /\ pc' = IF r.ok THEN pc ELSE "panic"
    /\ UNCHANGED <<strategy, max, CHUNK_SIZE, small_max, win>>

\* sieve_chunks: the loop is over, the buffer is returned.
SieveChunksReturn ==
    /\ strategy = "chunks" /\ pc = "windows"
    /\ \A k \in DOMAIN task : task[k].st = "done"
    /\ pc' = "done"
    /\ UNCHANGED <<strategy, max, CHUNK_SIZE, sieve, small_max, win, task, writes, reads>>

\* sieve_parallel: a worker takes the job of window k.
TaskStart(k) ==
    /\ strategy = "parallel"
    /\ task[k].st = "pending"
    /\ task' = [task EXCEPT ![k].st = "running"]
    /\ UNCHANGED <<strategy, max, CHUNK_SIZE, pc, sieve, small_max, win, writes, reads>>

\* sieve_parallel: the job of window k runs one iteration of update_chunk.
TaskStep(k) ==
    /\ strategy = "parallel"
    /\ task[k].st = "running"
    /\ LET w == win[k]
           i == task[k].i
       IN  IF i >= Len(Low)
           THEN /\ task' = [task EXCEPT ![k].st = "done"]
                /\ UNCHANGED <<sieve, writes, reads>>
           ELSE LET r == UpdateStep(Low, Slice(sieve, w.start, w.len), w.base, i)
                IN  /\ sieve' = Store(sieve, w, r.buf)
                    /\ writes' = writes \cup
                          {[task |-> k, idx |-> w.start + x.pos, p |-> x.p] : x \in r.wr}
                    /\ reads' = reads \cup {[task |-> k, idx |-> i]}
                    /\ task' = [task EXCEPT ![k] =
                                  [st |-> IF ~r.ok THEN "panicked"
                                          ELSE IF r.brk THEN "done" ELSE "running",
                                   i  |-> i + 1]]
    /\ UNCHANGED <<strategy, max, CHUNK_SIZE, pc, small_max, win>>

\* A for_each that does not wait for its jobs.
JoinedNoWait == TRUE

\* Whether for_each may return: every job has ended.
Joined == \A k \in DOMAIN task : task[k].st \in {"done", "panicked"}

\* sieve_parallel: for_each returns and the buffer is returned (or the panic
\* of a job is propagated).
SieveParallelReturn ==
    /\ strategy = "parallel" /\ pc = "windows"
    /\ Joined
    /\ pc' = IF \E k \in DOMAIN task : task[k].st = "panicked" THEN "panic" ELSE "done"
    /\ UNCHANGED <<strategy, max, CHUNK_SIZE, sieve, small_max, win, task, writes, reads>>

Next ==
    \/ SieveSerial
    \/ SieveChunksStart
    \/ \E k \in DOMAIN task : ChunkStep(k)
    \/ SieveChunksReturn
    \/ SieveParallelStart
    \/ \E k \in DOMAIN task : TaskStart(k)
    \/ \E k \in DOMAIN task : TaskStep(k)
    \/ SieveParallelReturn

Spec == Init /\ [][Next]_vars

\* What the worker pool and the caller blocked in for_each can do.
ParallelWork ==
    \/ \E k \in DOMAIN task : TaskStart(k)
    \/ \E k \in DOMAIN task : TaskStep(k)
    \/ SieveParallelReturn

\* The worker pool keeps running the jobs it was given, and the caller
\* returns once for_each has joined them.
FairSpec == Spec /\ WF_vars(ParallelWork)

-----------------------------------------------------------------------------
(* sieve_chunks as a function of max and the window length *)

RECURSIVE ChunksLoop(_, _, _, _)
\* The for loop of sieve_chunks from window k on.
ChunksLoop(s, sm, w, k) ==
    IF k \notin DOMAIN w THEN [ok |-> TRUE, buf |-> s]
    ELSE LET r == update_chunk(Slice(s, 0, sm \div 2),
                               Slice(s, w[k].start, w[k].len), w[k].base)
         IN  IF r.ok THEN ChunksLoop(Store(s, w[k], r.buf), sm, w, k + 1)
             ELSE [ok |-> FALSE, buf |-> s]

sieve_chunks(m, size) ==
    LET r == Prepare(m, size)
    IN  IF r.ok THEN ChunksLoop(r.buf, r.sm, r.win, 0) ELSE [ok |-> FALSE, buf |-> r.buf]

-----------------------------------------------------------------------------
(* Reference notions the properties are stated with *)

IsPrime(n) == n >= 2 /\ \A d \in 2..(n - 1) : n % d # 0

\* The odd integers a buffer flags, and the primes below a bound.
Decoded(s) == {2 * i + 1 : i \in {j \in 0..(Len(s) - 1) : s[j + 1]}}
PrimesBelow(n) == {q \in 0..(n - 1) : IsPrime(q)}

Returned == pc = "done"
Ended == pc \in {"done", "panic"}
Chunked == strategy \in {"chunks", "parallel"}
\* The buffer indices of window k, and the odd integers they stand for.
WinIdx(k) == win[k].start .. (win[k].start + win[k].len - 1)
WinVals(k) == {2 * i + 1 : i \in WinIdx(k)}
\* The small primes the prefix holds.
LowPrimes == {2 * i + 1 : i \in {j \in 0..(Len(Low) - 1) : Low[j + 1]}}
NoTaskPanicked == \A k \in DOMAIN task : task[k].st # "panicked"

-----------------------------------------------------------------------------
(* Properties *)

\* C1: for every max >= 4 the three sieves all return a buffer, and the
\* three buffers are equal (the run's sieve ends "done" with the buffer
\* sieve_serial(max) returns).
C1_ThreeStrategiesAgree ==
    (max >= 4 /\ Ended) =>
        /\ Returned
        /\ sieve_serial(max).ok
        /\ sieve = sieve_serial(max).buf

\* C2: for every max >= 4 sieve_serial(max) returns max/2 flags, flag i true
\* iff 2i+1 is a prime below max, so 1 + the number of true flags is the
\* number of primes below max (10 for max = 30, 25 for max = 100).
C2_SerialFlagsArePrimes ==
    (strategy = "serial" /\ max >= 4 /\ pc # "start") =>
        /\ Returned
        /\ Len(sieve) = max \div 2
        /\ ~sieve[1]
        /\ \A i \in 0..(Len(sieve) - 1) : sieve[i + 1] <=> IsPrime(2 * i + 1)
        /\ 1 + Cardinality(Decoded(sieve)) = Cardinality(PrimesBelow(max))
        /\ max = 30 => Decoded(sieve) \cup {2} = {2, 3, 5, 7, 11, 13, 17, 19, 23, 29}
        /\ max = 100 => 1 + Cardinality(Decoded(sieve)) = 25

C2_Witness ==
    /\ strategy = "serial" /\ Returned /\ max = 100
    /\ Cardinality(Decoded(sieve)) = 24
    /\ ~sieve[5] /\ sieve[49]

\* C3: for every max >= 10, whatever the order in which the window jobs of
\* sieve_parallel start, interleave and end, no job panics and the buffer
\* returned is the one sieve_serial(max) returns.
C3_ParallelEqualsSerial ==
    (strategy = "parallel" /\ max >= 10) =>
        /\ pc # "panic"
        /\ NoTaskPanicked
        /\ Returned => (sieve_serial(max).ok /\ sieve = sieve_serial(max).buf)

C3_Witness ==
    /\ strategy = "parallel" /\ Returned /\ max = MaxN
    /\ Cardinality(DOMAIN task) >= 3
    /\ \A k \in DOMAIN task : \E w \in writes : w.task = k

\* C4: every flag an update_chunk call clears lies inside the window the
\* call was given (its offset is below the window's length, so the call
\* never panics), the prefix below small_max/2 is never written during
\* window processing, no index is written by two tasks, and no index is
\* read by one task and written by another.
C4_WritesStayInWindow ==
    Chunked =>
        /\ NoTaskPanicked
        /\ pc = "panic" => DOMAIN win = {}
        /\ \A w \in writes :
              /\ w.task \in DOMAIN win
              /\ w.idx \in WinIdx(w.task)
              /\ w.idx - win[w.task].start < win[w.task].len
              /\ w.idx >= small_max \div 2
              /\ w.idx < Len(sieve)
        /\ \A w1, w2 \in writes : w1.idx = w2.idx => w1.task = w2.task
        /\ \A r \in reads : \A w \in writes : r.idx = w.idx => r.task = w.task
        /\ \A r \in reads : r.idx < small_max \div 2
        /\ DOMAIN win # {} => Low = sieve_serial(small_max).buf

C4_Witness ==
    /\ strategy = "parallel" /\ pc = "windows"
    /\ \E j, k \in DOMAIN task :
          /\ j # k
          /\ task[j].st = "running" /\ task[k].st = "running"
          /\ \E w \in writes : w.task = j
          /\ \E w \in writes : w.task = k
          /\ \E r \in reads : r.task = j

\* C5: with s = small_max/2 and C = CHUNK_SIZE, window k covers the indices
\* [s + k*C, min(s + (k+1)*C, max/2)) and has base 2*(s + k*C) + 1; every
\* index in [s, max/2) is in exactly one window, and no window holds an
\* index below s or at or beyond max/2.
C5_WindowsPartitionSuffix ==
    (Chunked /\ pc \in {"windows", "done"}) =>
        LET s == small_max \div 2
            n == max \div 2
            C == CHUNK_SIZE
        IN  /\ Len(sieve) = n
            /\ \A k \in DOMAIN win :
                  /\ win[k].start = s + k * C
                  /\ win[k].start + win[k].len = Min(s + (k + 1) * C, n)
                  /\ win[k].len >= 1
                  /\ win[k].base = 2 * (s + k * C) + 1
                  /\ WinIdx(k) \subseteq s..(n - 1)
            /\ \A i \in s..(n - 1) :
                  Cardinality({k \in DOMAIN win : i \in WinIdx(k)}) = 1
            /\ \A j, k \in DOMAIN win : j # k => WinIdx(j) \cap WinIdx(k) = {}
            /\ DOMAIN task = DOMAIN win

C5_Witness ==
    /\ Chunked /\ pc = "windows"
    /\ Cardinality(DOMAIN win) >= 3
    /\ \E k \in DOMAIN win : win[k].len < CHUNK_SIZE
    /\ \E k \in DOMAIN task : task[k].st = "done"

\* C6: for a fixed max >= 10 the buffer sieve_chunks and sieve_parallel
\* return does not depend on the window length: it is the buffer the chunked
\* sieve returns for every window length from 1 up to one longer than the
\* whole buffer.
C6_WindowLengthIrrelevant ==
    (Chunked /\ max >= 10 /\ Ended) =>
        /\ Returned
        /\ \A c \in 1..(max \div 2 + 1) :
              sieve_chunks(max, c).ok /\ sieve = sieve_chunks(max, c).buf

C6_Witness ==
    /\ Chunked /\ Returned /\ max >= 26
    /\ CHUNK_SIZE > 1
    /\ \E k \in DOMAIN win : win[k].len < CHUNK_SIZE
    /\ Cardinality(DOMAIN win) >= 3
    /\ sieve # sieve_chunks(max, CHUNK_SIZE + 1).buf \/ writes # {}

\* C7: for every max, 0 to 3 included, sieve_serial(max) ends without a
\* panic and returns max/2 flags; for max < 2 none of them is true.
C7_SerialNeverPanics ==
    (strategy = "serial" /\ pc # "start") =>
        /\ Returned
        /\ Len(sieve) = max \div 2
        /\ max < 2 => Decoded(sieve) = {}

\* C8: sieve_parallel returns only when every window job has ended, the
\* buffer is not written after the return, and once the jobs are handed
\* out the return eventually happens.
C8_ReturnAfterAllTasks ==
    /\ []((strategy = "parallel" /\ Returned) =>
             \A k \in DOMAIN task : task[k].st = "done")
    /\ [][(strategy = "parallel" /\ Returned) =>
             (sieve' = sieve /\ writes' = writes)]_vars
    /\ (strategy = "parallel" /\ pc = "windows") ~> Returned

C8_Witness ==
    /\ strategy = "parallel" /\ Returned
    /\ Cardinality(DOMAIN task) >= 2
    /\ \A k \in DOMAIN task : task[k].i >= 2

\* C9 as stated: the buffer returned for N has length ceil(N/2).
C9_LengthIsCeilHalf ==
    Returned => Len(sieve) = (max + 1) \div 2

\* C9 as amended: the buffer returned for N has length N/2 rounded down,
\* by each of the three sieves.
C9_LengthIsFloorHalf ==
    Returned => Len(sieve) = max \div 2

C9_Witness ==
    /\ Returned /\ Chunked
    /\ max % 2 = 1
    /\ Len(sieve) = (max - 1) \div 2

\* The start value of prime p in a window: the smallest odd multiple of p
\* that is >= base and >= p*p.
StartValueRight(p, base) ==
    LET pm == FirstMultiple(p, base)
    IN  /\ pm % 2 = 1 /\ pm % p = 0
        /\ pm >= base /\ pm >= p * p
        /\ \A v \in 1..(pm - 1) :
              ~(v % 2 = 1 /\ v % p = 0 /\ v >= base /\ v >= p * p)
        /\ pm = IF p * p >= base THEN p * p
                ELSE LET c == (base + p - 1) \div p
                     IN  IF c % 2 = 0 THEN (c + 1) * p ELSE c * p

\* What C10 says of starts and of cleared flags.
StartsAndClears ==
    /\ \A k \in DOMAIN win :
          /\ win[k].base % 2 = 1
          /\ \A p \in LowPrimes :
                p * p < win[k].base + 2 * win[k].len => StartValueRight(p, win[k].base)
    /\ \A w \in writes :
          LET v == 2 * w.idx + 1
          IN  /\ w.p \in LowPrimes /\ IsPrime(w.p)
              /\ v % w.p = 0 /\ v \div w.p >= w.p /\ (v \div w.p) % 2 = 1
              /\ ~IsPrime(v)

\* The primes the early stop of window k skips.
Skipped(k) == {p \in LowPrimes : p * p >= win[k].base + 2 * win[k].len}

\* C10 as stated: pm is the smallest odd multiple of p that is >= base and
\* >= p*p; every cleared flag is an odd multiple k*p with k >= p, never a
\* prime; and the early stop skips no prime that has a multiple inside the
\* window.
C10_StartAndEarlyStop ==
    Chunked =>
        /\ StartsAndClears
        /\ \A k \in DOMAIN task :
              task[k].st = "done" =>
                 \A p \in Skipped(k) : \A v \in WinVals(k) : v % p # 0

\* C10 as amended: the same, except that the early stop skips no prime p
\* that has a multiple k*p with k >= p inside the window; every composite
\* of the window is cleared when the call ends and every prime is kept.
C10_StartAndEarlyStopAmended ==
    Chunked =>
        /\ StartsAndClears
        /\ \A k \in DOMAIN task :
              task[k].st = "done" =>
                 /\ \A p \in Skipped(k) :
                       \A v \in WinVals(k) : ~(v % p = 0 /\ v \div p >= p)
                 /\ \A i \in WinIdx(k) : sieve[i + 1] <=> IsPrime(2 * i + 1)

C10_Witness ==
    /\ Chunked /\ pc = "windows"
    /\ \E k \in DOMAIN task :
          /\ task[k].st = "done"
          /\ \E w \in writes : w.task = k /\ w.p = 3 /\ 9 < win[k].base
          /\ \E w \in writes : w.task = k /\ w.p = 5
          /\ 7 \in Skipped(k)

====
